---- MODULE Spec2Model ----
(***************************************************************************)
(* Model of scripts/beautify_fragments.py: the conservative beautifier for *)
(* Fragmentarium .frag sources.  A text is a sequence of one-character     *)
(* strings; a line is such a sequence without "\n".  The formatter's main  *)
(* loop is modelled one iteration per step; the scanner and the string     *)
(* helpers it calls are operators computed the way the Python code         *)
(* computes them.                                                          *)
(*                                                                         *)
(* The module holds five state machines, each with its own variables and   *)
(* its own specification; the variables of the other four stay at their    *)
(* idle values.  SpecTotal runs the first two from their calls on, under   *)
(* the scheduling of a sequential program:                                 *)
(*   Spec        one call of format_frag_text, one loop iteration a step   *)
(*   SpecScan    one call of strip_comments_for_braces, one character a    *)
(*               step                                                      *)
(*   SpecMain    two consecutive runs of main of beautify_fragments.py     *)
(*               over the same files                                       *)
(*   SpecServer  one run of main of scripts/start_server.py, or one call   *)
(*               of build_command                                          *)
(*   SpecIds     a sequence of calls of make_system_id of                  *)
(*               scripts/port_fragmentarium_3d.py on one used_ids set      *)
(***************************************************************************)
EXTENDS Integers, Sequences, FiniteSets, TLC

VARIABLES
    text,              \* argument of format_frag_text
    pc,                \* "start" | "loop" | "done"
    lines,             \* text.split("\n") after normalisation
    i,                 \* 1-based position of the for loop in lines
    out,               \* list of emitted lines (collapsed on return)
    indent_level,
    in_preset,
    in_block_comment,
    effective_indent,  \* last value of the local of the same name
    result,            \* returned text
    \* strip_comments_for_braces
    scan_pc,           \* "idle" | "loop" | "done"
    scan_line,         \* argument line
    scan_flag,         \* argument in_block_comment
    scan_st,           \* the locals: i, in_block_comment, in_string, escape, out
    \* scripts/start_server.py
    srv_pc,            \* position in main, or in a direct call of build_command
    srv_env,           \* which prerequisites exist
    srv_args,          \* the argparse.Namespace
    srv_command,       \* the local `command` of main
    srv_error,         \* message of the StartServerError raised, or NoError
    srv_launched,      \* subprocess.run was called
    srv_returncode,    \* value returned by run_server
    \* main of scripts/beautify_fragments.py
    main_pc,           \* "idle" | "main" | "loop" | "returned" | "raised"
    main_run,          \* 1 for the first run, 2 for the run that follows it
    main_args,         \* the flags --write and --check
    main_fs,           \* content of every .frag file under the paths
    main_fs0,          \* main_fs when the run began
    main_files,        \* the local `files`
    main_k,            \* 1-based position of the for loop in files
    main_changed,      \* the local `changed_files`
    main_ret,          \* value returned by main
    main_error,        \* the exception raised, or NoError
    main_read,         \* files read by the run so far
    main_written,      \* files written by the run so far
    main_prev,         \* flags and outcome of the first run
    \* make_system_id of scripts/port_fragmentarium_3d.py
    id_pc,             \* "idle" | "base" | "loop" | "returned"
    id_used,           \* the shared set used_ids
    id_before,         \* used_ids when the call began
    id_path,           \* argument relative_no_ext
    id_base,           \* the local `base`
    id_suffix,         \* the local `suffix`
    id_returned,       \* the ids returned so far, in order of the calls
    id_seen            \* the bases of the calls that returned

fmtVars == <<text, pc, lines, i, out, indent_level, in_preset,
             in_block_comment, effective_indent, result>>

scanVars == <<scan_pc, scan_line, scan_flag, scan_st>>

srvVars == <<srv_pc, srv_env, srv_args, srv_command, srv_error, srv_launched,
             srv_returncode>>

mainVars == <<main_pc, main_run, main_args, main_fs, main_fs0, main_files,
              main_k, main_changed, main_ret, main_error, main_read,
              main_written, main_prev>>

idVars == <<id_pc, id_used, id_before, id_path, id_base, id_suffix,
            id_returned, id_seen>>

vars == <<fmtVars, scanVars, srvVars, mainVars, idVars>>

(***************************************************************************)
(* Bounds of the model.                                                    *)
(***************************************************************************)
MaxLines == 3
\* longest line handed to the scanner on its own
MaxScanLen == 4

(***************************************************************************)
(* Python string helpers.                                                  *)
(***************************************************************************)
Max(a, b) == IF a >= b THEN a ELSE b

\* str.isspace for the characters of the model alphabet
IsSpace(c) == c \in {" ", "\t", "\n", "\r", "\f"}

\* str.lstrip(): drop leading whitespace of every class
RECURSIVE lstrip(_)
lstrip(s) ==
    IF s # <<>> /\ IsSpace(Head(s)) THEN lstrip(Tail(s)) ELSE s

\* str.rstrip(): drop trailing whitespace of every class
RECURSIVE rstrip(_)
rstrip(s) ==
    IF s # <<>> /\ IsSpace(s[Len(s)]) THEN rstrip(SubSeq(s, 1, Len(s) - 1)) ELSE s

\* str.strip()
strip(s) == lstrip(rstrip(s))

\* variant: nothing is trimmed
rstrip_nothing(s) == s

\* str.rstrip(" \t"): drop trailing spaces and tabs only
RECURSIVE rstrip_space_tab(_)
rstrip_space_tab(s) ==
    IF s # <<>> /\ s[Len(s)] \in {" ", "\t"}
    THEN rstrip_space_tab(SubSeq(s, 1, Len(s) - 1))
    ELSE s

Upper == <<"A", "B", "C", "D", "E", "F", "G", "H", "I", "J", "K", "L", "M",
           "N", "O", "P", "Q", "R", "S", "T", "U", "V", "W", "X", "Y", "Z">>
Lower == <<"a", "b", "c", "d", "e", "f", "g", "h", "i", "j", "k", "l", "m",
           "n", "o", "p", "q", "r", "s", "t", "u", "v", "w", "x", "y", "z">>

lower_char(c) ==
    IF \E k \in 1..26 : Upper[k] = c
    THEN Lower[CHOOSE k \in 1..26 : Upper[k] = c]
    ELSE c

\* str.lower()
lower(s) == [k \in 1..Len(s) |-> lower_char(s[k])]

\* str.startswith(prefix)
startswith(s, prefix) ==
    Len(s) >= Len(prefix) /\ SubSeq(s, 1, Len(prefix)) = prefix

\* str.count(ch) for a one-character ch
RECURSIVE count(_, _)
count(s, ch) ==
    IF s = <<>> THEN 0
    ELSE (IF Head(s) = ch THEN 1 ELSE 0) + count(Tail(s), ch)

\* text.replace("\r\n", "\n")
RECURSIVE replace_crlf(_)
replace_crlf(s) ==
    IF s = <<>> THEN <<>>
    ELSE IF Len(s) >= 2 /\ s[1] = "\r" /\ s[2] = "\n"
         THEN <<"\n">> \o replace_crlf(SubSeq(s, 3, Len(s)))
         ELSE <<s[1]>> \o replace_crlf(Tail(s))

\* text.replace("\r", "\n")
replace_cr(s) == [k \in 1..Len(s) |-> IF s[k] = "\r" THEN "\n" ELSE s[k]]

\* variant: only "\r\n" is replaced, a lone "\r" is left in the text
normalize_newlines_crlf_only(t) == replace_crlf(t)

normalize_newlines(t) == replace_cr(replace_crlf(t))

\* text.split("\n"): always at least one (possibly empty) line
RECURSIVE split(_)
split(s) ==
    IF \A k \in 1..Len(s) : s[k] # "\n" THEN <<s>>
    ELSE LET k == CHOOSE k \in 1..Len(s) :
                      s[k] = "\n" /\ \A j \in 1..(k - 1) : s[j] # "\n"
         IN  <<SubSeq(s, 1, k - 1)>> \o split(SubSeq(s, k + 1, Len(s)))

\* "\n".join(ls)
RECURSIVE join(_)
join(ls) ==
    IF ls = <<>> THEN <<>>
    ELSE IF Len(ls) = 1 THEN ls[1]
    ELSE ls[1] \o <<"\n">> \o join(Tail(ls))

(***************************************************************************)
(* strip_comments_for_braces: the scanner.  A scanner state is the record  *)
(* of the function's locals; NoString stands for in_string = None.         *)
(***************************************************************************)
NoString == "None"

\* variant: every line is scanned from outside a block comment
scan_init_no_carry(in_block_comment_) ==
    [i |-> 0, in_block_comment |-> FALSE, in_string |-> NoString,
     escape |-> FALSE, out |-> <<>>, stop |-> FALSE]

scan_init(in_block_comment_) ==
    [i |-> 0, in_block_comment |-> in_block_comment_, in_string |-> NoString,
     escape |-> FALSE, out |-> <<>>, stop |-> FALSE]

\* variant: a backslash inside a string is an ordinary character
InStringStep_no_escape(st, ch) ==
    [st EXCEPT
       !.out = Append(st.out, ch),
       !.in_string = IF ch = st.in_string THEN NoString ELSE st.in_string,
       !.i = st.i + 1]

\* lines 42-51: one character inside a string literal
InStringStep(st, ch) ==
    [st EXCEPT
       !.out = Append(st.out, ch),
       !.escape = IF st.escape THEN FALSE
                  ELSE IF ch = "\\" THEN TRUE
                  ELSE st.escape,
       !.in_string = IF ~st.escape /\ ch # "\\" /\ ch = st.in_string
                     THEN NoString ELSE st.in_string,
       !.i = st.i + 1]

\* variant: the position is not moved past the two characters of "/*"
BlockOpenStep_no_advance(st) == [st EXCEPT !.in_block_comment = TRUE]

\* lines 61-64: "/*" met in plain code
BlockOpenStep(st) == [st EXCEPT !.in_block_comment = TRUE, !.i = st.i + 2]

\* one iteration of `while i < n` (i is 0-based as in the source)
scan_step(line, st) ==
    LET n   == Len(line)
        ch  == line[st.i + 1]
        nxt == IF st.i + 1 < n THEN line[st.i + 2] ELSE ""
    IN  IF st.in_block_comment
        THEN IF ch = "*" /\ nxt = "/"
             THEN [st EXCEPT !.in_block_comment = FALSE, !.i = st.i + 2]
             ELSE [st EXCEPT !.i = st.i + 1]
        ELSE IF st.in_string # NoString
        THEN InStringStep(st, ch)
        ELSE IF ch \in {"'", "\""}
        THEN [st EXCEPT !.in_string = ch, !.out = Append(st.out, ch),
                        !.i = st.i + 1]
        ELSE IF ch = "/" /\ nxt = "/"
        THEN [st EXCEPT !.stop = TRUE]
        ELSE IF ch = "/" /\ nxt = "*"
        THEN BlockOpenStep(st)
        ELSE [st EXCEPT !.out = Append(st.out, ch), !.i = st.i + 1]

RECURSIVE scan_loop(_, _)
scan_loop(line, st) ==
    IF st.i < Len(line) /\ ~st.stop THEN scan_loop(line, scan_step(line, st))
    ELSE st

\* returns <<code, in_block_comment>>
strip_comments_for_braces(line, in_block_comment_) ==
    LET st == scan_loop(line, scan_init(in_block_comment_))
    IN  <<st.out, st.in_block_comment>>

\* the `for ch in stripped` loop: length of the leading run of "}"
RECURSIVE leading_close_run(_)
leading_close_run(s) ==
    IF s # <<>> /\ Head(s) = "}" THEN 1 + leading_close_run(Tail(s)) ELSE 0

\* returns <<delta, leading_close, next_in_block_comment>>
line_brace_stats(line, in_block_comment_) ==
    LET r    == strip_comments_for_braces(line, in_block_comment_)
        code == r[1]
    IN  <<count(code, "{") - count(code, "}"),
          leading_close_run(lstrip(code)),
          r[2]>>

(***************************************************************************)
(* collapse_blank_lines                                                    *)
(***************************************************************************)
RECURSIVE collapse_walk(_, _, _)
collapse_walk(ls, acc, last_blank) ==
    IF ls = <<>> THEN acc
    ELSE IF Head(ls) = <<>>
         THEN IF last_blank THEN collapse_walk(Tail(ls), acc, last_blank)
              ELSE collapse_walk(Tail(ls), Append(acc, <<>>), TRUE)
         ELSE collapse_walk(Tail(ls), Append(acc, Head(ls)), FALSE)

\* `while out and out[-1] == "": out.pop()`
RECURSIVE pop_trailing_blank(_)
pop_trailing_blank(ls) ==
    IF ls # <<>> /\ ls[Len(ls)] = <<>>
    THEN pop_trailing_blank(SubSeq(ls, 1, Len(ls) - 1))
    ELSE ls

\* variant: the trailing blank lines are not popped
collapse_blank_lines_keep_trailing(ls) == collapse_walk(ls, <<>>, TRUE)

collapse_blank_lines(ls) == pop_trailing_blank(collapse_walk(ls, <<>>, TRUE))

(***************************************************************************)
(* format_frag_text: the body of the for loop, branch by branch.  The      *)
(* loop's locals are passed as a record s.                                 *)
(***************************************************************************)
\* variant: a tab as the indentation unit
INDENT_tab == <<"\t">>

INDENT == <<" ", " ">>

\* INDENT * k
RECURSIVE repeat_indent(_)
repeat_indent(k) == IF k <= 0 THEN <<>> ELSE INDENT \o repeat_indent(k - 1)

IsBlankLine(original) == strip(rstrip_space_tab(original)) = <<>>

IsDirectiveLine(original) ==
    startswith(strip(rstrip_space_tab(original)), <<"#">>)

PresetPrefix == <<"#", "p", "r", "e", "s", "e", "t", " ">>
EndPreset    == <<"#", "e", "n", "d", "p", "r", "e", "s", "e", "t">>

BlankBranch(s) == [s EXCEPT !.out = Append(s.out, <<>>)]

\* variant: the case-folded directive is emitted
DirectiveEmitted_lowered(stripped) == lower(stripped)

DirectiveEmitted(stripped) == stripped

\* variant: the level is not clamped at 0
NextIndentLevel_unclamped(level, delta) == level + delta

NextIndentLevel(level, delta) == Max(level + delta, 0)

\* variant: a directive line goes through the scanner and moves the level
DirectiveBranch_scanned(s, original) ==
    LET stripped == strip(rstrip_space_tab(original))
        lowered  == lower(stripped)
        stats    == line_brace_stats(stripped, s.in_block_comment)
    IN  [s EXCEPT
           !.out = Append(s.out, DirectiveEmitted(stripped)),
           !.in_block_comment = stats[3],
           !.indent_level = NextIndentLevel(s.indent_level, stats[1]),
           !.in_preset = IF startswith(lowered, PresetPrefix) THEN TRUE
                         ELSE IF lowered = EndPreset THEN FALSE
                         ELSE s.in_preset]

\* variant: the preset keywords are matched without case folding
DirectiveBranch_case_sensitive(s, original) ==
    LET stripped == strip(rstrip_space_tab(original))
    IN  [s EXCEPT
           !.out = Append(s.out, DirectiveEmitted(stripped)),
           !.in_preset = IF startswith(stripped, PresetPrefix) THEN TRUE
                         ELSE IF stripped = EndPreset THEN FALSE
                         ELSE s.in_preset]

DirectiveBranch(s, original) ==
    LET stripped == strip(rstrip_space_tab(original))
        lowered  == lower(stripped)
    IN  [s EXCEPT
           !.out = Append(s.out, DirectiveEmitted(stripped)),
           !.in_preset = IF startswith(lowered, PresetPrefix) THEN TRUE
                         ELSE IF lowered = EndPreset THEN FALSE
                         ELSE s.in_preset]

\* variant: the leading close braces do not dedent the line
EffectiveIndent_no_dedent(level, leading_close) == Max(level, 0)

EffectiveIndent(level, leading_close) == Max(level - leading_close, 0)

\* variant: the line keeps its own leading whitespace after the indentation
Formatted_keep_leading(eff, line) == repeat_indent(eff) \o line

Formatted(eff, line) == repeat_indent(eff) \o lstrip(line)

\* variant: a preset line is indented at the current level
PresetBranch_indented(s, original) ==
    [s EXCEPT !.out = Append(s.out,
                 Formatted(s.indent_level, rstrip_space_tab(original)))]

\* variant: a preset line goes through the scanner and moves the level
PresetBranch_scanned(s, original) ==
    LET line  == rstrip_space_tab(original)
        stats == line_brace_stats(line, s.in_block_comment)
    IN  [s EXCEPT
           !.out = Append(s.out, lstrip(line)),
           !.in_block_comment = stats[3],
           !.indent_level = NextIndentLevel(s.indent_level, stats[1])]

PresetBranch(s, original) ==
    [s EXCEPT !.out = Append(s.out, lstrip(rstrip_space_tab(original)))]

CodeBranch(s, original) ==
    LET line  == rstrip_space_tab(original)
        stats == line_brace_stats(line, s.in_block_comment)
        eff   == EffectiveIndent(s.indent_level, stats[2])
    IN  [s EXCEPT
           !.out = Append(s.out, Formatted(eff, line)),
           !.effective_indent = eff,
           !.in_block_comment = stats[3],
           !.indent_level = NextIndentLevel(s.indent_level, stats[1])]

LoopBody(s, original) ==
    IF IsBlankLine(original) THEN BlankBranch(s)
    ELSE IF IsDirectiveLine(original) THEN DirectiveBranch(s, original)
    ELSE IF s.in_preset THEN PresetBranch(s, original)
    ELSE CodeBranch(s, original)

LoopInit ==
    [out |-> <<>>, indent_level |-> 0, in_preset |-> FALSE,
     in_block_comment |-> FALSE, effective_indent |-> 0]

\* the locals after the for loop has consumed ls[1..k]
RECURSIVE LoopAfter(_, _)
LoopAfter(ls, k) ==
    IF k = 0 THEN LoopInit ELSE LoopBody(LoopAfter(ls, k - 1), ls[k])

format_frag_text(t) ==
    LET ls == split(normalize_newlines(t))
    IN  join(collapse_blank_lines(LoopAfter(ls, Len(ls)).out)) \o <<"\n">>

(***************************************************************************)
(* Inputs: chunks of text joined by "\n".  A chunk holding "\r" spans two  *)
(* lines; a chunk ending in "\r" makes a "\r\n" line ending.  The chunks   *)
(* cover open and close braces, leading and trailing whitespace, a line    *)
(* comment, block comment delimiters, a closed and an unterminated string, *)
(* preset and other directives, and blank lines.                           *)
(***************************************************************************)
Vocab ==
    { <<"a", "{">>,
      <<"}">>,
      <<" ", "\t", "b", "/", "/", "}", " ">>,
      <<>>,
      <<"#", "p", "r", "e", "s", "e", "t", " ", "x">>,
      <<" ", "#", "E", "n", "d", "P", "r", "e", "s", "e", "t", "\f">>,
      <<"#", "d", "/", "*", "{">>,
      <<"/", "*", " ", "{">>,
      <<"}", " ", "*", "/", " ", "{">>,
      <<"f", "(", "\"", "}", "\"", ")", "{">>,
      <<"}", "{", "{">>,
      <<"'", "{", "\r", "}", "\r">> }

\* the lines every input of a family starts with: none, or an open brace
\* followed by an open preset block
Prefixes ==
    { <<>>,
      << <<"{">>, <<"#", "p", "r", "e", "s", "e", "t", " ", "x">>,
         <<" ", "{">> >> }

\* the scenario of the specification, and a text with leading, repeated and
\* trailing blank lines
Scenarios ==
    { << <<"a", "{">>, <<"b">>, <<"}">>, <<"c">>, <<>>, <<>>, <<"d">>, <<>> >>,
      << <<"\f", " ">>, <<"a">>, <<>>, <<" ">>, <<>>, <<"b">>, <<>>, <<>> >> }

ChunkSeqs == UNION { [1..n -> Vocab] : n \in 0..MaxLines }

Inputs ==
    { join(p \o m) : p \in Prefixes, m \in ChunkSeqs }
    \cup { join(sc) : sc \in Scenarios }

(***************************************************************************)
(* The state machine of one call of format_frag_text.                      *)
(***************************************************************************)
Locals ==
    [out |-> out, indent_level |-> indent_level, in_preset |-> in_preset,
     in_block_comment |-> in_block_comment,
     effective_indent |-> effective_indent]

SetLocals(s) ==
    /\ out' = s.out
    /\ indent_level' = s.indent_level
    /\ in_preset' = s.in_preset
    /\ in_block_comment' = s.in_block_comment
    /\ effective_indent' = s.effective_indent

\* a raise that did not happen
NoError == "None"

\* args.port is None
NoPort == <<>>

\* line 28: the default of --port
DefaultPort == 4174

SrvIdle ==
    /\ srv_pc = "idle"
    /\ srv_env = [package_json |-> FALSE, npm |-> FALSE, node_modules |-> FALSE]
    /\ srv_args = [host |-> "localhost", port |-> <<DefaultPort>>,
                   open |-> FALSE, strict_port |-> FALSE]
    /\ srv_command = <<>>
    /\ srv_error = NoError
    /\ srv_launched = FALSE
    /\ srv_returncode = 0

NoRun ==
    [write |-> FALSE, check |-> FALSE, pc |-> "idle", ret |-> 0, written |-> {}]

IdIdle ==
    /\ id_pc = "idle"
    /\ id_used = {}
    /\ id_before = {}
    /\ id_path = <<>>
    /\ id_base = <<>>
    /\ id_suffix = 2
    /\ id_returned = <<>>
    /\ id_seen = {}

MainIdle ==
    /\ main_pc = "idle"
    /\ main_run = 1
    /\ main_args = [write |-> FALSE, check |-> FALSE]
    /\ main_fs = <<>>
    /\ main_fs0 = <<>>
    /\ main_files = <<>>
    /\ main_k = 1
    /\ main_changed = <<>>
    /\ main_ret = 0
    /\ main_error = NoError
    /\ main_read = {}
    /\ main_written = {}
    /\ main_prev = NoRun

ScanIdle ==
    /\ scan_pc = "idle"
    /\ scan_line = <<>>
    /\ scan_flag = FALSE
    /\ scan_st = scan_init(FALSE)

FmtIdle ==
    /\ text = <<>>
    /\ pc = "idle"
    /\ lines = <<>>
    /\ i = 1
    /\ out = <<>>
    /\ indent_level = 0
    /\ in_preset = FALSE
    /\ in_block_comment = FALSE
    /\ effective_indent = 0
    /\ result = <<>>

\* the variables of the machines other than the formatter's
notFmt == <<scanVars, srvVars, mainVars, idVars>>

\* the variables of the machines other than the scanner's
notScan == <<fmtVars, srvVars, mainVars, idVars>>

Init ==
    /\ ScanIdle
    /\ SrvIdle
    /\ MainIdle
    /\ IdIdle
    /\ text \in Inputs
    /\ pc = "start"
    /\ lines = <<>>
    /\ i = 1
    /\ out = <<>>
    /\ indent_level = 0
    /\ in_preset = FALSE
    /\ in_block_comment = FALSE
    /\ effective_indent = 0
    /\ result = <<>>

\* lines 103-109: normalise, split, initialise the locals
Start ==
    /\ pc = "start"
    /\ lines' = split(normalize_newlines(text))
    /\ i' = 1
    /\ SetLocals(LoopInit)
    /\ pc' = "loop"
    /\ UNCHANGED <<text, result, notFmt>>

InLoop == pc = "loop" /\ i <= Len(lines)

\* lines 115-117
BlankLine ==
    /\ InLoop
    /\ IsBlankLine(lines[i])
    /\ SetLocals(BlankBranch(Locals))
    /\ i' = i + 1
    /\ UNCHANGED <<text, pc, lines, result, notFmt>>

\* lines 119-129
DirectiveLine ==
    /\ InLoop
    /\ ~IsBlankLine(lines[i])
    /\ IsDirectiveLine(lines[i])
    /\ SetLocals(DirectiveBranch(Locals, lines[i]))
    /\ i' = i + 1
    /\ UNCHANGED <<text, pc, lines, result, notFmt>>

\* lines 131-133
PresetLine ==
    /\ InLoop
    /\ ~IsBlankLine(lines[i])
    /\ ~IsDirectiveLine(lines[i])
    /\ in_preset
    /\ SetLocals(PresetBranch(Locals, lines[i]))
    /\ i' = i + 1
    /\ UNCHANGED <<text, pc, lines, result, notFmt>>

\* lines 135-139
CodeLine ==
    /\ InLoop
    /\ ~IsBlankLine(lines[i])
    /\ ~IsDirectiveLine(lines[i])
    /\ ~in_preset
    /\ SetLocals(CodeBranch(Locals, lines[i]))
    /\ i' = i + 1
    /\ UNCHANGED <<text, pc, lines, result, notFmt>>

\* lines 141-142
Return ==
    /\ pc = "loop"
    /\ i > Len(lines)
    /\ out' = collapse_blank_lines(out)
    /\ result' = join(out') \o <<"\n">>
    /\ pc' = "done"
    /\ UNCHANGED <<text, lines, i, indent_level, in_preset,
                   in_block_comment, effective_indent, notFmt>>

Next ==
    \/ Start
    \/ BlankLine
    \/ DirectiveLine
    \/ PresetLine
    \/ CodeLine
    \/ Return

Spec == Init /\ [][Next]_vars

(***************************************************************************)
(* The state machine of one call of strip_comments_for_braces: one         *)
(* iteration of the while loop a step, one action per branch of the loop   *)
(* body.                                                                   *)
(***************************************************************************)
ScanAlphabet == {"{", "/", "*", "\"", "'", "\\"}

ScanLines == UNION { [1..n -> ScanAlphabet] : n \in 0..MaxScanLen }

ScanInit ==
    /\ FmtIdle
    /\ SrvIdle
    /\ MainIdle
    /\ IdIdle
    /\ scan_pc = "loop"
    /\ scan_line \in ScanLines
    /\ scan_flag \in BOOLEAN
    /\ scan_st = scan_init(scan_flag)

\* line 30: the loop condition holds (no break was taken)
ScanInLoop ==
    scan_pc = "loop" /\ scan_st.i < Len(scan_line) /\ ~scan_st.stop

\* lines 31-32
ScanCh == scan_line[scan_st.i + 1]

ScanNxt ==
    IF scan_st.i + 1 < Len(scan_line) THEN scan_line[scan_st.i + 2] ELSE ""

ScanIterate ==
    /\ scan_st' = scan_step(scan_line, scan_st)
    /\ UNCHANGED <<scan_pc, scan_line, scan_flag, notScan>>

\* lines 34-38
ScanBlockClose ==
    /\ ScanInLoop
    /\ scan_st.in_block_comment
    /\ ScanCh = "*" /\ ScanNxt = "/"
    /\ ScanIterate

\* lines 39-40
ScanBlockSkip ==
    /\ ScanInLoop
    /\ scan_st.in_block_comment
    /\ ~(ScanCh = "*" /\ ScanNxt = "/")
    /\ ScanIterate

\* lines 42-51
ScanInString ==
    /\ ScanInLoop
    /\ ~scan_st.in_block_comment
    /\ scan_st.in_string # NoString
    /\ ScanIterate

ScanPlain ==
    /\ ScanInLoop
    /\ ~scan_st.in_block_comment
    /\ scan_st.in_string = NoString

\* lines 53-57
ScanQuote ==
    /\ ScanPlain
    /\ ScanCh \in {"'", "\""}
    /\ ScanIterate

\* lines 59-60
ScanLineComment ==
    /\ ScanPlain
    /\ ScanCh = "/" /\ ScanNxt = "/"
    /\ ScanIterate

\* lines 61-64
ScanBlockOpen ==
    /\ ScanPlain
    /\ ScanCh = "/" /\ ScanNxt = "*"
    /\ ScanIterate

\* lines 66-67
ScanCode ==
    /\ ScanPlain
    /\ ScanCh \notin {"'", "\""}
    /\ ~(ScanCh = "/" /\ ScanNxt \in {"/", "*"})
    /\ ScanIterate

\* line 69
ScanReturn ==
    /\ scan_pc = "loop"
    /\ ~(scan_st.i < Len(scan_line) /\ ~scan_st.stop)
    /\ scan_pc' = "done"
    /\ UNCHANGED <<scan_line, scan_flag, scan_st, notScan>>

ScanNext ==
    \/ ScanBlockClose
    \/ ScanBlockSkip
    \/ ScanInString
    \/ ScanQuote
    \/ ScanLineComment
    \/ ScanBlockOpen
    \/ ScanCode
    \/ ScanReturn

SpecScan == ScanInit /\ [][ScanNext]_vars

ScanDone == scan_pc = "done"

(***************************************************************************)
(* Both machines under the scheduling of a sequential program: a call of   *)
(* format_frag_text on a text, or a call of the scanner on a line, takes   *)
(* its next step whenever it has one.  The formatter has a next step       *)
(* exactly while FmtRunning holds, so its weak fairness is stated with     *)
(* that enabling condition written out.                                    *)
(***************************************************************************)
TotalInit == FmtIdle /\ ScanIdle /\ SrvIdle /\ MainIdle /\ IdIdle

\* format_frag_text is called on a text
FmtCall ==
    /\ pc = "idle" /\ scan_pc = "idle"
    /\ text' \in Inputs
    /\ pc' = "start"
    /\ UNCHANGED <<lines, i, out, indent_level, in_preset, in_block_comment,
                   effective_indent, result, notFmt>>

\* strip_comments_for_braces is called on a line
ScanCall ==
    /\ pc = "idle" /\ scan_pc = "idle"
    /\ scan_line' \in ScanLines
    /\ scan_flag' \in BOOLEAN
    /\ scan_st' = scan_init(scan_flag')
    /\ scan_pc' = "loop"
    /\ UNCHANGED notScan

TotalNext == FmtCall \/ ScanCall \/ Next \/ ScanNext

FmtRunning == pc \in {"start", "loop"}

SpecTotal ==
    /\ TotalInit
    /\ [][TotalNext]_vars
    /\ WF_vars(ScanNext)
    /\ (<>[]FmtRunning => []<><<Next>>_vars)

(***************************************************************************)
(* scripts/start_server.py.  One run of main: parse_args, then             *)
(* ensure_prerequisites, build_command and run_server; or one direct call  *)
(* of build_command on a Namespace, whose port may be None.                *)
(***************************************************************************)
Digit == <<"0", "1", "2", "3", "4", "5", "6", "7", "8", "9">>

\* str() of an int: decimal digits, "-" in front of a negative one
RECURSIVE str_nat(_)
str_nat(n) ==
    IF n < 10 THEN Digit[n + 1] ELSE str_nat(n \div 10) \o Digit[(n % 10) + 1]

str_int(n) == IF n < 0 THEN "-" \o str_nat(0 - n) ELSE str_nat(n)

\* lines 43-53: the fixed words of the message of the first failing check,
\* in the order of the code, or NoError
ensure_prerequisites_npm_first(env) ==
    IF ~env.npm THEN "npm is not available on PATH."
    ELSE IF ~env.package_json THEN "Missing project file"
    ELSE IF ~env.node_modules THEN "Missing dependencies directory"
    ELSE NoError

ensure_prerequisites(env) ==
    IF ~env.package_json THEN "Missing project file"
    ELSE IF ~env.npm THEN "npm is not available on PATH."
    ELSE IF ~env.node_modules THEN "Missing dependencies directory"
    ELSE NoError

\* lines 57-64
build_command_strict_first(args) ==
    LET c0 == <<"npm", "run", "dev", "--", "--host", args.host>>
        c1 == IF args.port # NoPort
              THEN c0 \o <<"--port", str_int(args.port[1])>> ELSE c0
        c2 == IF args.strict_port THEN Append(c1, "--strictPort") ELSE c1
        c3 == IF args.open THEN Append(c2, "--open") ELSE c2
    IN  c3

build_command(args) ==
    LET c0 == <<"npm", "run", "dev", "--", "--host", args.host>>
        c1 == IF args.port # NoPort
              THEN c0 \o <<"--port", str_int(args.port[1])>> ELSE c0
        c2 == IF args.open THEN Append(c1, "--open") ELSE c1
        c3 == IF args.strict_port THEN Append(c2, "--strictPort") ELSE c2
    IN  c3

Hosts == {"localhost", "0.0.0.0"}

\* values of --port: type=int accepts any integer
PortValues == {DefaultPort, 5173, 80, 0, 0 - 1}

Envs == [package_json : BOOLEAN, npm : BOOLEAN, node_modules : BOOLEAN]

\* what parse_args can return
ParsedArgs ==
    [host : Hosts, port : {<<p>> : p \in PortValues},
     open : BOOLEAN, strict_port : BOOLEAN]

\* what build_command can be handed
Namespaces ==
    [host : Hosts, port : {NoPort} \cup {<<p>> : p \in PortValues},
     open : BOOLEAN, strict_port : BOOLEAN]

\* exit codes of the dev server
ReturnCodes == {0, 1}

SrvInit ==
    /\ FmtIdle
    /\ ScanIdle
    /\ MainIdle
    /\ IdIdle
    /\ srv_env \in Envs
    /\ srv_command = <<>>
    /\ srv_error = NoError
    /\ srv_launched = FALSE
    /\ srv_returncode = 0
    /\ \/ /\ srv_pc = "parse_args"
          /\ srv_args = [host |-> "localhost", port |-> <<DefaultPort>>,
                         open |-> FALSE, strict_port |-> FALSE]
       \/ /\ srv_pc = "build_command"
          /\ srv_args \in Namespaces

notSrv == <<fmtVars, scanVars, mainVars, idVars>>

\* line 76
SrvParseArgs ==
    /\ srv_pc = "parse_args"
    /\ srv_args' \in ParsedArgs
    /\ srv_pc' = "ensure_prerequisites"
    /\ UNCHANGED <<srv_env, srv_command, srv_error, srv_launched,
                   srv_returncode, notSrv>>

\* line 77, a check fails: main is left by the exception
SrvEnsureRaises ==
    /\ srv_pc = "ensure_prerequisites"
    /\ ensure_prerequisites(srv_env) # NoError
    /\ srv_error' = ensure_prerequisites(srv_env)
    /\ srv_pc' = "raised"
    /\ UNCHANGED <<srv_env, srv_args, srv_command, srv_launched,
                   srv_returncode, notSrv>>

\* line 77, every check passes
SrvEnsureOk ==
    /\ srv_pc = "ensure_prerequisites"
    /\ ensure_prerequisites(srv_env) = NoError
    /\ srv_pc' = "main_build_command"
    /\ UNCHANGED <<srv_env, srv_args, srv_command, srv_error, srv_launched,
                   srv_returncode, notSrv>>

\* line 78
SrvMainBuildCommand ==
    /\ srv_pc = "main_build_command"
    /\ srv_command' = build_command(srv_args)
    /\ srv_pc' = "run_server"
    /\ UNCHANGED <<srv_env, srv_args, srv_error, srv_launched,
                   srv_returncode, notSrv>>

\* lines 56-64, called on its own
SrvBuildCommand ==
    /\ srv_pc = "build_command"
    /\ srv_command' = build_command(srv_args)
    /\ srv_pc' = "built"
    /\ UNCHANGED <<srv_env, srv_args, srv_error, srv_launched,
                   srv_returncode, notSrv>>

\* lines 79, 67-72
SrvRunServer ==
    /\ srv_pc = "run_server"
    /\ srv_launched' = TRUE
    /\ srv_returncode' \in ReturnCodes
    /\ srv_pc' = "returned"
    /\ UNCHANGED <<srv_env, srv_args, srv_command, srv_error, notSrv>>

SrvNext ==
    \/ SrvParseArgs
    \/ SrvEnsureRaises
    \/ SrvEnsureOk
    \/ SrvMainBuildCommand
    \/ SrvBuildCommand
    \/ SrvRunServer

SpecServer == SrvInit /\ [][SrvNext]_vars

(***************************************************************************)
(* main of scripts/beautify_fragments.py over the .frag files of its       *)
(* paths, run twice in a row over the same paths.  The files are numbered  *)
(* in the order collect_frag_files sorts them; main_fs[f] is what file f   *)
(* holds on disk, carriage returns included.                               *)
(***************************************************************************)
MaxFiles == 2

\* Path.read_text: text mode translates "\r\n" and "\r" to "\n"
read_text(content) == replace_cr(replace_crlf(content))

\* variant: the file is written whenever it changed
format_file_ignores_write(content, write) ==
    LET original  == read_text(content)
        formatted == format_frag_text(original)
        changed   == formatted # normalize_newlines(original)
    IN  <<changed, IF changed THEN formatted ELSE content>>

\* variant: the normalised original is written back
format_file_writes_original(content, write) ==
    LET original  == read_text(content)
        formatted == format_frag_text(original)
        changed   == formatted # normalize_newlines(original)
    IN  <<changed,
          IF changed /\ write THEN normalize_newlines(original) ELSE content>>

\* lines 145-151: <<changed, content of the file afterwards>>
format_file(content, write) ==
    LET original  == read_text(content)
        formatted == format_frag_text(original)
        changed   == formatted # normalize_newlines(original)
    IN  <<changed, IF changed /\ write THEN formatted ELSE content>>

\* what a .frag file may hold
FileTexts ==
    { <<>>,
      <<"a", "{", "\n", "b", "\n", "}", "\n">>,
      <<"a", "{", "\n", " ", " ", "b", "\n", "}", "\n">>,
      <<"a", "{", "\r", "\n", " ", " ", "b", "\r", "\n", "}", "\r", "\n">>,
      <<"/", "*", "{", "\n", "\t", "}", " ", "\n", "\n", "\n">>,
      <<"#", "p", "r", "e", "s", "e", "t", " ", "x", "\r", " ", "{", " ">> }

FileSystems == UNION { [1..n -> FileTexts] : n \in 0..MaxFiles }

Flags == [write : BOOLEAN, check : BOOLEAN]

MainInit ==
    /\ FmtIdle
    /\ ScanIdle
    /\ SrvIdle
    /\ IdIdle
    /\ main_pc = "main"
    /\ main_run = 1
    /\ main_args \in Flags
    /\ main_fs \in FileSystems
    /\ main_fs0 = main_fs
    /\ main_files = <<>>
    /\ main_k = 1
    /\ main_changed = <<>>
    /\ main_ret = 0
    /\ main_error = NoError
    /\ main_read = {}
    /\ main_written = {}
    /\ main_prev = NoRun

notMain == <<fmtVars, scanVars, srvVars, idVars>>

\* lines 186-187
MainBothFlags ==
    /\ main_pc = "main"
    /\ main_args.write /\ main_args.check
    /\ main_error' = "ValueError"
    /\ main_pc' = "raised"
    /\ UNCHANGED <<main_run, main_args, main_fs, main_fs0, main_files, main_k,
                   main_changed, main_ret, main_read, main_written, main_prev,
                   notMain>>

\* lines 189-192, no .frag file under the paths
MainNoFiles ==
    /\ main_pc = "main"
    /\ ~(main_args.write /\ main_args.check)
    /\ Len(main_fs) = 0
    /\ main_error' = "RuntimeError"
    /\ main_pc' = "raised"
    /\ UNCHANGED <<main_run, main_args, main_fs, main_fs0, main_files, main_k,
                   main_changed, main_ret, main_read, main_written, main_prev,
                   notMain>>

\* lines 189-194
MainCollect ==
    /\ main_pc = "main"
    /\ ~(main_args.write /\ main_args.check)
    /\ Len(main_fs) > 0
    /\ main_files' = [f \in 1..Len(main_fs) |-> f]
    /\ main_changed' = <<>>
    /\ main_k' = 1
    /\ main_pc' = "loop"
    /\ UNCHANGED <<main_run, main_args, main_fs, main_fs0, main_ret,
                   main_error, main_read, main_written, main_prev, notMain>>

MainInLoop == main_pc = "loop" /\ main_k <= Len(main_files)

\* lines 195-198 and 145-151: one call of format_file
MainFormatFile(f) ==
    LET r == format_file(main_fs[f], main_args.write)
    IN  /\ main_fs' = [main_fs EXCEPT ![f] = r[2]]
        /\ main_changed' = IF r[1] THEN Append(main_changed, f) ELSE main_changed
        /\ main_read' = main_read \cup {f}
        /\ main_written' = IF r[1] /\ main_args.write
                           THEN main_written \cup {f} ELSE main_written
        /\ main_k' = main_k + 1
        /\ UNCHANGED <<main_pc, main_run, main_args, main_fs0, main_files,
                       main_ret, main_error, main_prev, notMain>>

\* the file needs no change
MainFileClean ==
    /\ MainInLoop
    /\ ~format_file(main_fs[main_files[main_k]], main_args.write)[1]
    /\ MainFormatFile(main_files[main_k])

\* the file needs a change and --write is not given
MainFileReported ==
    /\ MainInLoop
    /\ format_file(main_fs[main_files[main_k]], main_args.write)[1]
    /\ ~main_args.write
    /\ MainFormatFile(main_files[main_k])

\* the file needs a change and --write is given
MainFileWritten ==
    /\ MainInLoop
    /\ format_file(main_fs[main_files[main_k]], main_args.write)[1]
    /\ main_args.write
    /\ MainFormatFile(main_files[main_k])

\* lines 200-208
MainReturn ==
    /\ main_pc = "loop"
    /\ main_k > Len(main_files)
    /\ main_ret' = IF main_args.check /\ main_changed # <<>> THEN 1 ELSE 0
    /\ main_pc' = "returned"
    /\ UNCHANGED <<main_run, main_args, main_fs, main_fs0, main_files, main_k,
                   main_changed, main_error, main_read, main_written,
                   main_prev, notMain>>

\* main is run again over the same paths
MainAgain ==
    /\ main_pc \in {"returned", "raised"}
    /\ main_run = 1
    /\ main_prev' = [write |-> main_args.write, check |-> main_args.check,
                     pc |-> main_pc, ret |-> main_ret,
                     written |-> main_written]
    /\ main_run' = 2
    /\ main_args' \in Flags
    /\ main_fs0' = main_fs
    /\ main_files' = <<>>
    /\ main_k' = 1
    /\ main_changed' = <<>>
    /\ main_ret' = 0
    /\ main_error' = NoError
    /\ main_read' = {}
    /\ main_written' = {}
    /\ main_pc' = "main"
    /\ UNCHANGED <<main_fs, notMain>>

MainNext ==
    \/ MainBothFlags
    \/ MainNoFiles
    \/ MainCollect
    \/ MainFileClean
    \/ MainFileReported
    \/ MainFileWritten
    \/ MainReturn
    \/ MainAgain

SpecMain == MainInit /\ [][MainNext]_vars

(***************************************************************************)
(* make_system_id of scripts/port_fragmentarium_3d.py: a sequence of calls *)
(* that share one used_ids set, empty before the first call (line 249).    *)
(* A call is three kinds of steps: the base is built and looked up, the    *)
(* suffix loop tries one candidate per iteration, the id found is added    *)
(* and returned.                                                           *)
(***************************************************************************)
MaxCalls == 3

\* [a-z0-9]
IsSlugChar(c) ==
    \/ \E k \in 1..26 : Lower[k] = c
    \/ \E k \in 1..10 : Digit[k] = c

\* relative_no_ext.split("/") without the empty segments (line 187)
RECURSIVE split_segments(_, _)
split_segments(s, cur) ==
    IF s = <<>> THEN (IF cur = <<>> THEN <<>> ELSE <<cur>>)
    ELSE IF Head(s) = "/"
         THEN (IF cur = <<>> THEN <<>> ELSE <<cur>>) \o split_segments(Tail(s), <<>>)
         ELSE split_segments(Tail(s), Append(cur, Head(s)))

\* re.sub(r"[^a-z0-9]+", "-", s): every run of other characters becomes "-"
RECURSIVE sub_runs(_, _)
sub_runs(s, in_run) ==
    IF s = <<>> THEN <<>>
    ELSE IF IsSlugChar(Head(s)) THEN <<Head(s)>> \o sub_runs(Tail(s), FALSE)
    ELSE IF in_run THEN sub_runs(Tail(s), TRUE)
    ELSE <<"-">> \o sub_runs(Tail(s), TRUE)

\* str.strip("-")
RECURSIVE strip_dash(_)
strip_dash(s) ==
    IF s # <<>> /\ Head(s) = "-" THEN strip_dash(Tail(s))
    ELSE IF s # <<>> /\ s[Len(s)] = "-" THEN strip_dash(SubSeq(s, 1, Len(s) - 1))
    ELSE s

\* lines 190-191
slug(seg) ==
    LET t == strip_dash(sub_runs(lower(seg), FALSE))
    IN  IF t # <<>> THEN t ELSE <<"i", "t", "e", "m">>

\* "/".join(ls)
RECURSIVE join_slash(_)
join_slash(ls) ==
    IF ls = <<>> THEN <<>>
    ELSE IF Len(ls) = 1 THEN ls[1]
    ELSE ls[1] \o <<"/">> \o join_slash(Tail(ls))

IdPrefix ==
    <<"f", "r", "a", "g", "m", "e", "n", "t", "a", "r", "i", "u", "m", "/">>

\* lines 187-193
make_base(relative_no_ext) ==
    LET segments   == split_segments(relative_no_ext, <<>>)
        normalized == [k \in 1..Len(segments) |-> slug(segments[k])]
    IN  IdPrefix \o join_slash(normalized)

\* str() of a suffix, as characters
RECURSIVE str_digits(_)
str_digits(n) ==
    IF n < 10 THEN <<Digit[n + 1]>>
    ELSE str_digits(n \div 10) \o <<Digit[(n % 10) + 1]>>

\* line 200
candidate(base, suffix) == base \o <<"-">> \o str_digits(suffix)

\* variant: the first candidate is taken without a look at used_ids
is_unused_always(id, used_ids) == TRUE

\* lines 194 and 201
is_unused(id, used_ids) == id \notin used_ids

\* values of relative_no_ext
IdPaths ==
    { <<"a">>, <<"A">>, <<"a", "-", "2">>, <<"a", " ", "2">>,
      <<"a", "/", "b">>, <<"/", "a", "/", "/", "B", "!">>, <<"_", "/", "a">>,
      <<>> }

IdInit ==
    /\ FmtIdle
    /\ ScanIdle
    /\ SrvIdle
    /\ MainIdle
    /\ IdIdle

notId == <<fmtVars, scanVars, srvVars, mainVars>>

\* line 281: the next call; lines 187-193
IdCall ==
    /\ id_pc \in {"idle", "returned"}
    /\ Len(id_returned) < MaxCalls
    /\ id_path' \in IdPaths
    /\ id_base' = make_base(id_path')
    /\ id_before' = id_used
    /\ id_suffix' = 2
    /\ id_seen' = IF id_pc = "returned" THEN id_seen \cup {id_base} ELSE id_seen
    /\ id_pc' = "base"
    /\ UNCHANGED <<id_used, id_returned, notId>>

\* lines 194-196
IdReturnBase ==
    /\ id_pc = "base"
    /\ is_unused(id_base, id_used)
    /\ id_used' = id_used \cup {id_base}
    /\ id_returned' = Append(id_returned, id_base)
    /\ id_pc' = "returned"
    /\ UNCHANGED <<id_before, id_path, id_base, id_suffix, id_seen, notId>>

\* lines 194, 198
IdCollision ==
    /\ id_pc = "base"
    /\ ~is_unused(id_base, id_used)
    /\ id_suffix' = 2
    /\ id_pc' = "loop"
    /\ UNCHANGED <<id_used, id_before, id_path, id_base, id_returned, id_seen,
                   notId>>

\* lines 200-203
IdReturnCandidate ==
    /\ id_pc = "loop"
    /\ is_unused(candidate(id_base, id_suffix), id_used)
    /\ id_used' = id_used \cup {candidate(id_base, id_suffix)}
    /\ id_returned' = Append(id_returned, candidate(id_base, id_suffix))
    /\ id_pc' = "returned"
    /\ UNCHANGED <<id_before, id_path, id_base, id_suffix, id_seen, notId>>

\* lines 200-201, 204
IdNextSuffix ==
    /\ id_pc = "loop"
    /\ ~is_unused(candidate(id_base, id_suffix), id_used)
    /\ id_suffix' = id_suffix + 1
    /\ UNCHANGED <<id_pc, id_used, id_before, id_path, id_base, id_returned,
                   id_seen, notId>>

IdNext ==
    \/ IdCall
    \/ IdReturnBase
    \/ IdCollision
    \/ IdReturnCandidate
    \/ IdNextSuffix

SpecIds == IdInit /\ [][IdNext]_vars

Done == pc = "done"

(***************************************************************************)
(* Vocabulary of the properties.                                           *)
(***************************************************************************)
\* the for loop has consumed every line and `out` holds one entry per line
LoopEnd == pc = "loop" /\ i > Len(lines)

\* the loop's locals just before line k is processed
Before(k) == LoopAfter(lines, k - 1)

IsCodeLineAt(k) ==
    /\ ~IsBlankLine(lines[k])
    /\ ~IsDirectiveLine(lines[k])
    /\ ~Before(k).in_preset

IsPresetLineAt(k) ==
    /\ ~IsBlankLine(lines[k])
    /\ ~IsDirectiveLine(lines[k])
    /\ Before(k).in_preset

RECURSIVE LeadingSpaces(_)
LeadingSpaces(s) ==
    IF s # <<>> /\ Head(s) = " " THEN 1 + LeadingSpaces(Tail(s)) ELSE 0

\* the leading run of space characters of every line of ls
Indents(ls) == [k \in 1..Len(ls) |-> LeadingSpaces(ls[k])]

\* the non-blank lines of ls, each stripped of leading and trailing whitespace
RECURSIVE NonBlankStripped(_)
NonBlankStripped(ls) ==
    IF ls = <<>> THEN <<>>
    ELSE IF strip(Head(ls)) = <<>> THEN NonBlankStripped(Tail(ls))
    ELSE <<strip(Head(ls))>> \o NonBlankStripped(Tail(ls))

\* the non-blank lines of ls as they are
RECURSIVE NonBlank(_)
NonBlank(ls) ==
    IF ls = <<>> THEN <<>>
    ELSE IF strip(Head(ls)) = <<>> THEN NonBlank(Tail(ls))
    ELSE <<Head(ls)>> \o NonBlank(Tail(ls))

\* the indices of the non-blank lines of ls, in order
RECURSIVE NonBlankIdx(_, _)
NonBlankIdx(ls, k) ==
    IF k > Len(ls) THEN <<>>
    ELSE IF strip(ls[k]) = <<>> THEN NonBlankIdx(ls, k + 1)
    ELSE <<k>> \o NonBlankIdx(ls, k + 1)

Contains(s, c) == \E k \in 1..Len(s) : s[k] = c

(***************************************************************************)
(* C1  Idempotence: formatting the returned text again returns the same    *)
(* text, for every input (unbalanced braces, unterminated block comments   *)
(* or strings, preset blocks, directive lines and blank-line runs          *)
(* included).                                                              *)
(***************************************************************************)
C1_Idempotent == Done => format_frag_text(result) = result

\* a run that changed its input and ended inside an open block comment and
\* an open preset block
C1_Witness ==
    /\ Done
    /\ result # normalize_newlines(text)
    /\ in_block_comment
    /\ in_preset
    /\ format_frag_text(result) = result

RECURSIVE LexClasses(_, _, _, _, _)
LexClasses(line, p, blk, str, esc) ==
    IF p > Len(line) THEN <<>>
    ELSE LET ch  == line[p]
             nxt == IF p < Len(line) THEN line[p + 1] ELSE ""
         IN  IF blk
             THEN IF ch = "*" /\ nxt = "/"
                  THEN <<"block", "block">>
                       \o LexClasses(line, p + 2, FALSE, str, esc)
                  ELSE <<"block">> \o LexClasses(line, p + 1, TRUE, str, esc)
             ELSE IF str # NoString
             THEN <<"string">>
                  \o LexClasses(line, p + 1, FALSE,
                                IF ~esc /\ ch # "\\" /\ ch = str
                                THEN NoString ELSE str,
                                ~esc /\ ch = "\\")
             ELSE IF ch \in {"'", "\""}
             THEN <<"string">> \o LexClasses(line, p + 1, FALSE, ch, FALSE)
             ELSE IF ch = "/" /\ nxt = "/"
             THEN [k \in 1..(Len(line) - p + 1) |-> "line"]
             ELSE IF ch = "/" /\ nxt = "*"
             THEN <<"block", "block">>
                  \o LexClasses(line, p + 2, TRUE, str, esc)
             ELSE <<"code">> \o LexClasses(line, p + 1, FALSE, str, esc)

\* class of character j of line k, the block-comment flag being the one the
\* formatter carries into line k
ClassAt(k, j) ==
    LexClasses(lines[k], 1, Before(k).in_block_comment, NoString, FALSE)[j]

IsBrace(c) == c \in {"{", "}"}

\* lines with character j of line k replaced by c
ReplaceAt(ls, k, j, c) == [ls EXCEPT ![k] = [ls[k] EXCEPT ![j] = c]]

(***************************************************************************)
(* C3  Comment/string opacity: a brace inside a // comment, inside a block *)
(* comment or inside a quoted string never changes the indentation level:  *)
(* replacing it by a non-brace character leaves the indentation of every   *)
(* emitted line unchanged.                                                 *)
(***************************************************************************)
C3_Opacity ==
    LoopEnd =>
        \A k \in 1..Len(lines) : \A j \in 1..Len(lines[k]) :
            (IsBrace(lines[k][j]) /\ ClassAt(k, j) # "code")
            => Indents(LoopAfter(ReplaceAt(lines, k, j, "x"), Len(lines)).out)
               = Indents(out)

(***************************************************************************)
(* C4  Preset passthrough.  As claimed: every line between #preset <name>  *)
(* and the following #endpreset is the input line with only its trailing   *)
(* whitespace trimmed, its leading whitespace kept.                        *)
(***************************************************************************)
C4_PresetKeepsLeading ==
    Done =>
        LET inIdx == NonBlankIdx(lines, 1)
            outNB == NonBlank(split(result))
        IN  \A m \in 1..Len(inIdx) :
                IsPresetLineAt(inIdx[m]) => outNB[m] = rstrip(lines[inIdx[m]])

(***************************************************************************)
(* C4 as amended: every non-blank, non-directive line between              *)
(* #preset <name> and the following #endpreset appears in the output with  *)
(* its leading whitespace and its trailing spaces and tabs removed and     *)
(* nothing added, whatever braces it contains and whatever the             *)
(* indentation level is.                                                   *)
(***************************************************************************)
C4_PresetPassthrough ==
    Done =>
        LET inIdx == NonBlankIdx(lines, 1)
            outNB == NonBlank(split(result))
        IN  /\ Len(outNB) = Len(inIdx)
            /\ \A m \in 1..Len(inIdx) :
                   IsPresetLineAt(inIdx[m])
                   => outNB[m] = lstrip(rstrip_space_tab(lines[inIdx[m]]))

\* a preset line holding a brace and leading whitespace, met at a positive
\* indentation level, has been written out
C4_Witness ==
    /\ Done
    /\ \E k \in 1..Len(lines) :
           /\ IsPresetLineAt(k)
           /\ Before(k).indent_level > 0
           /\ Contains(lines[k], "{")
           /\ IsSpace(lines[k][1])
           /\ \E m \in 1..Len(NonBlankIdx(lines, 1)) :
                  /\ NonBlankIdx(lines, 1)[m] = k
                  /\ NonBlank(split(result))[m] = lstrip(lines[k])

(***************************************************************************)
(* C5  Preset frame: while in_preset is true, processing a non-directive   *)
(* line leaves indent_level and the carried block-comment flag unchanged,  *)
(* so every emitted line (those after #endpreset included) is indented as  *)
(* if the lines of the preset block held no brace.                         *)
(***************************************************************************)
\* lines with every brace of the preset lines replaced by a non-brace
Debraced(ls) ==
    [k \in 1..Len(ls) |->
        IF LoopAfter(ls, k - 1).in_preset /\ ~IsDirectiveLine(ls[k])
        THEN [j \in 1..Len(ls[k]) |-> IF IsBrace(ls[k][j]) THEN "x" ELSE ls[k][j]]
        ELSE ls[k]]

C5_PresetFrame ==
    /\ [][(InLoop /\ in_preset /\ ~IsDirectiveLine(lines[i]))
          => (indent_level' = indent_level
              /\ in_block_comment' = in_block_comment)]_vars
    /\ [](LoopEnd =>
            Indents(LoopAfter(Debraced(lines), Len(lines)).out) = Indents(out))

\* a preset block with a brace in it was closed by #endpreset and followed
\* by a code line, emitted at the level in force before the block
C5_Witness ==
    /\ LoopEnd
    /\ \E k \in 1..Len(lines) : \E n \in 1..Len(lines) :
           /\ k < n
           /\ IsPresetLineAt(k)
           /\ Contains(lines[k], "{")
           /\ IsCodeLineAt(n)
           /\ Before(k).indent_level > 0
           /\ LeadingSpaces(out[n]) = 2 * Before(k).indent_level

(***************************************************************************)
(* C6  Blank-line collapsing: the list returned by the collapse pass has   *)
(* no two consecutive blank lines and neither starts nor ends with a blank *)
(* line; it keeps the non-blank lines in order, with exactly one blank     *)
(* line between two of them where the emitted list had one or more, and    *)
(* none where it had none.                                                 *)
(***************************************************************************)
\* the list the for loop built, before the collapse pass
Emitted == LoopAfter(lines, Len(lines)).out

C6_Collapsed ==
    Done =>
        LET em == Emitted
            a  == NonBlankIdx(em, 1)
            b  == NonBlankIdx(out, 1)
        IN  /\ \A k \in 1..(Len(out) - 1) : ~(out[k] = <<>> /\ out[k + 1] = <<>>)
            /\ out # <<>> => (out[1] # <<>> /\ out[Len(out)] # <<>>)
            /\ Len(a) = Len(b)
            /\ \A m \in 1..Len(a) : out[b[m]] = em[a[m]]
            /\ \A m \in 1..(Len(a) - 1) :
                   b[m + 1] - b[m] = (IF a[m + 1] - a[m] > 1 THEN 2 ELSE 1)

\* leading blank lines, a run of three blank lines between two statements
\* and trailing blank lines were collapsed to statement, blank, statement
C6_Witness ==
    /\ Done
    /\ Len(Emitted) >= 7
    /\ Emitted[1] = <<>>
    /\ Emitted[Len(Emitted)] = <<>>
    /\ \E k \in 2..(Len(Emitted) - 4) :
           /\ Emitted[k] # <<>>
           /\ Emitted[k + 1] = <<>> /\ Emitted[k + 2] = <<>> /\ Emitted[k + 3] = <<>>
           /\ Emitted[k + 4] # <<>>
           /\ out = <<Emitted[k], <<>>, Emitted[k + 4]>>

(***************************************************************************)
(* C7  Output framing: whatever the newline convention of the input, and   *)
(* also for an empty or all-blank input, the returned text holds no "\r",  *)
(* ends with "\n" and does not end with two "\n".                          *)
(***************************************************************************)
C7_Framing ==
    Done =>
        /\ ~Contains(result, "\r")
        /\ Len(result) >= 1
        /\ result[Len(result)] = "\n"
        /\ Len(result) >= 2 => result[Len(result) - 1] # "\n"

\* an input mixing "\r\n", a lone "\r" and a lone "\n" has been formatted
C7_Witness ==
    /\ Done
    /\ \E k \in 1..(Len(text) - 1) : text[k] = "\r" /\ text[k + 1] = "\n"
    /\ \E k \in 1..(Len(text) - 1) : text[k] = "\r" /\ text[k + 1] # "\n"
    /\ \E k \in 2..Len(text) : text[k] = "\n" /\ text[k - 1] # "\r"
    /\ ~Contains(result, "\r")
    /\ Len(split(result)) = 5

(***************************************************************************)
(* C8  Concrete scenario: "a{\nb\n}\nc\n\n\nd\n" is formatted to           *)
(* "a{\n  b\n}\nc\n\nd\n".                                                 *)
(***************************************************************************)
ScenarioInput ==
    <<"a", "{", "\n", "b", "\n", "}", "\n", "c", "\n", "\n", "\n", "d", "\n">>

ScenarioOutput ==
    <<"a", "{", "\n", " ", " ", "b", "\n", "}", "\n", "c", "\n", "\n", "d",
      "\n">>

C8_Scenario == (Done /\ text = ScenarioInput) => result = ScenarioOutput

C8_Witness == Done /\ text = ScenarioInput /\ result = ScenarioOutput

(***************************************************************************)
(* C9  indent_level is never negative, and neither is the effective indent *)
(* used for an emitted line, also when an input closes more braces than it *)
(* opens.                                                                  *)
(***************************************************************************)
C9_NonNegative == indent_level >= 0 /\ effective_indent >= 0

\* a line closing more braces than are open has just been processed
C9_Witness ==
    /\ pc = "loop"
    /\ i > 1
    /\ IsCodeLineAt(i - 1)
    /\ LET stats == line_brace_stats(rstrip_space_tab(lines[i - 1]),
                                     Before(i - 1).in_block_comment)
       IN  /\ Before(i - 1).indent_level + stats[1] < 0
           /\ Before(i - 1).indent_level - stats[2] < 0
    /\ indent_level = 0
    /\ effective_indent = 0

(***************************************************************************)
(* C10  Brace-balance dedent.  As claimed: whenever a line with net brace  *)
(* delta +1 is immediately followed by a line consisting solely of "}",    *)
(* both outside preset mode and outside comments, the "}" line is emitted  *)
(* with the indentation of the opening line.                               *)
(***************************************************************************)
StatsAt(k) ==
    line_brace_stats(rstrip_space_tab(lines[k]), Before(k).in_block_comment)

\* line k opens one brace and line k + 1 is a lone "}", both scanned as code
OpensThenCloses(k) ==
    /\ IsCodeLineAt(k)
    /\ IsCodeLineAt(k + 1)
    /\ ~Before(k).in_block_comment
    /\ ~Before(k + 1).in_block_comment
    /\ StatsAt(k)[1] = 1
    /\ strip(lines[k + 1]) = <<"}">>

C10_DedentAnyOpener ==
    LoopEnd =>
        \A k \in 1..(Len(lines) - 1) :
            OpensThenCloses(k)
            => LeadingSpaces(out[k + 1]) = LeadingSpaces(out[k])

(***************************************************************************)
(* C10 as amended: whenever a line with net brace delta +1 that does not   *)
(* start with a closing brace (leading-close count 0) is immediately       *)
(* followed by a line consisting solely of "}", both outside preset mode   *)
(* and outside comments, the "}" line is emitted with the indentation of   *)
(* the opening line, at every starting indentation level.                  *)
(***************************************************************************)
C10_Dedent ==
    LoopEnd =>
        \A k \in 1..(Len(lines) - 1) :
            (OpensThenCloses(k) /\ StatsAt(k)[2] = 0)
            => LeadingSpaces(out[k + 1]) = LeadingSpaces(out[k])

\* an opening line at level 1 was followed by a lone "}", emitted at level 1
C10_Witness ==
    /\ LoopEnd
    /\ \E k \in 1..(Len(lines) - 1) :
           /\ OpensThenCloses(k)
           /\ StatsAt(k)[2] = 0
           /\ Before(k).indent_level = 1
           /\ LeadingSpaces(out[k]) = 2
           /\ LeadingSpaces(out[k + 1]) = 2

(***************************************************************************)
(* C11  Directive frame: a line whose first non-whitespace character is    *)
(* "#" is emitted with zero indentation at every nesting depth, and        *)
(* processing it leaves indent_level and the carried block-comment flag    *)
(* unchanged, whatever braces or comment delimiters it contains and        *)
(* whether or not in_preset is true.                                       *)
(***************************************************************************)
StartsWithHash(line) == lstrip(line) # <<>> /\ Head(lstrip(line)) = "#"

C11_DirectiveFrame ==
    /\ [][(InLoop /\ StartsWithHash(lines[i]))
          => /\ indent_level' = indent_level
             /\ in_block_comment' = in_block_comment
             /\ Len(out') = Len(out) + 1
             /\ Head(out'[Len(out')]) = "#"]_vars
    /\ [](Done =>
            LET inIdx == NonBlankIdx(lines, 1)
                outNB == NonBlank(split(result))
            IN  \A m \in 1..Len(inIdx) :
                    StartsWithHash(lines[inIdx[m]]) => Head(outNB[m]) = "#")

\* a directive holding a comment opener and a brace was met at level 1 inside
\* a preset block, and one was met outside a preset block
C11_Witness ==
    /\ LoopEnd
    /\ \E k \in 1..Len(lines) :
           /\ StartsWithHash(lines[k])
           /\ Contains(lines[k], "{") /\ Contains(lines[k], "*")
           /\ Before(k).in_preset
           /\ Before(k).indent_level = 1
           /\ LoopAfter(lines, k).indent_level = 1
           /\ Head(out[k]) = "#"
    /\ \E k \in 1..Len(lines) :
           /\ StartsWithHash(lines[k])
           /\ ~Before(k).in_preset
           /\ IsSpace(Head(lines[k]))
           /\ Head(out[k]) = "#"

(***************************************************************************)
(* C12  in_preset transitions: in_preset starts false, changes only when a *)
(* directive line is processed, becomes true exactly on a line whose       *)
(* stripped lowercase form starts with "#preset " and false exactly on a   *)
(* line whose stripped lowercase form equals "#endpreset"; so in_preset is *)
(* true iff the last such directive was a "#preset <name>", and an         *)
(* "#endpreset" met while in_preset is false changes neither in_preset nor *)
(* the indentation level nor the block-comment flag.                       *)
(***************************************************************************)
IsPresetStart(line) == startswith(lower(strip(line)), PresetPrefix)

IsPresetEnd(line) == lower(strip(line)) = EndPreset

\* TRUE iff the last preset directive among ls[1..k] opens a preset block
RECURSIVE LastOpensPreset(_, _)
LastOpensPreset(ls, k) ==
    IF k = 0 THEN FALSE
    ELSE IF IsPresetStart(ls[k]) THEN TRUE
    ELSE IF IsPresetEnd(ls[k]) THEN FALSE
    ELSE LastOpensPreset(ls, k - 1)

C12_PresetMode ==
    /\ []((pc = "loop" /\ i = 1) => ~in_preset)
    /\ [](pc = "loop" => in_preset = LastOpensPreset(lines, i - 1))
    /\ [][InLoop =>
            /\ (in_preset' # in_preset) => StartsWithHash(lines[i])
            /\ (in_preset' /\ ~in_preset) <=> (IsPresetStart(lines[i]) /\ ~in_preset)
            /\ (~in_preset' /\ in_preset) <=> (IsPresetEnd(lines[i]) /\ in_preset)
            /\ (IsPresetEnd(lines[i]) /\ ~in_preset)
               => UNCHANGED <<in_preset, indent_level, in_block_comment,
                              effective_indent>>]_vars

\* a stray "#endpreset", then a "#preset x", then the "#endpreset" closing it
C12_Witness ==
    /\ LoopEnd
    /\ ~in_preset
    /\ \E k \in 1..Len(lines) : \E n \in 1..Len(lines) : \E m \in 1..Len(lines) :
           /\ k < n /\ n < m
           /\ IsPresetEnd(lines[k]) /\ ~Before(k).in_preset
           /\ ~LoopAfter(lines, k).in_preset
           /\ IsPresetStart(lines[n]) /\ LoopAfter(lines, n).in_preset
           /\ IsPresetEnd(lines[m]) /\ Before(m).in_preset

(***************************************************************************)
(* C13  As stated: the position index of the scanner strictly increases on *)
(* every iteration of its loop.  The iteration that meets a line comment   *)
(* leaves the loop with the index where it was.                            *)
(***************************************************************************)
C13_IndexIncreasesEveryIteration ==
    [][ScanInLoop => scan_st'.i > scan_st.i]_vars

(***************************************************************************)
(* C13  Totality: format_frag_text returns a text for every input          *)
(* (mismatched braces, unterminated strings or block comments and a stray  *)
(* "#endpreset" included), and the scanner loop ends on every line: every  *)
(* iteration moves the position forward, or is the one that leaves the     *)
(* loop at a line comment, and the position never passes the end of the    *)
(* line.                                                                   *)
(***************************************************************************)
C13_Total ==
    /\ [][ScanInLoop => (scan_st'.i > scan_st.i \/ scan_st'.stop)]_vars
    /\ [](scan_pc = "loop" => scan_st.i <= Len(scan_line))
    /\ [][InLoop => i' = i + 1]_vars
    /\ (scan_pc = "loop") ~> (scan_pc = "done")
    /\ (pc = "start") ~> (pc = "done" /\ Len(result) >= 1)

\* the scanner returned from a line entered inside a block comment, closed
\* there, that ends inside an unterminated string
C13_Witness ==
    /\ ScanDone
    /\ Len(scan_line) = MaxScanLen
    /\ scan_flag
    /\ ~scan_st.in_block_comment
    /\ scan_st.in_string # NoString
    /\ scan_st.i = Len(scan_line)

(***************************************************************************)
(* C14  main of start_server launches the dev server only after            *)
(* ensure_prerequisites has passed: with package.json missing, or npm not  *)
(* on PATH, or node_modules missing, ensure_prerequisites raises           *)
(* StartServerError, the first of the three in that order deciding the     *)
(* message, and run_server is never invoked.                               *)
(***************************************************************************)
AllPrerequisites ==
    srv_env.package_json /\ srv_env.npm /\ srv_env.node_modules

C14_PrerequisitesFirst ==
    /\ [](srv_launched => AllPrerequisites)
    /\ [](srv_pc \in {"main_build_command", "run_server", "returned"}
            => AllPrerequisites)
    /\ [](srv_pc = "raised" =>
            /\ ~srv_launched
            /\ srv_command = <<>>
            /\ ~AllPrerequisites
            /\ ~srv_env.package_json => srv_error = "Missing project file"
            /\ (srv_env.package_json /\ ~srv_env.npm)
                   => srv_error = "npm is not available on PATH."
            /\ (srv_env.package_json /\ srv_env.npm)
                   => srv_error = "Missing dependencies directory")
    /\ [][(srv_pc = "ensure_prerequisites" /\ ~AllPrerequisites)
             => srv_pc' = "raised"]_vars
    /\ [][srv_launched' # srv_launched
             => (srv_pc = "run_server" /\ srv_error = NoError)]_vars

\* the case of the test: package.json and npm are there, node_modules is not
C14_Witness ==
    /\ srv_pc = "raised"
    /\ srv_env.package_json /\ srv_env.npm /\ ~srv_env.node_modules
    /\ srv_error = "Missing dependencies directory"
    /\ ~srv_launched

(***************************************************************************)
(* C15  build_command returns, for every combination of arguments, the     *)
(* list npm, run, dev, --, --host, <host>, then --port <port> iff port is  *)
(* not None, then --open iff open is set, then --strictPort iff            *)
(* strict_port is set, in that order and with nothing else.                *)
(***************************************************************************)
\* Python's str() of the port values of the model
PortText(p) ==
    CASE p = 4174 -> "4174"
      [] p = 5173 -> "5173"
      [] p = 80 -> "80"
      [] p = 0 -> "0"
      [] p = 0 - 1 -> "-1"

CommandBuilt == srv_pc \in {"built", "run_server", "returned"}

C15_BuildCommand ==
    CommandBuilt =>
        LET c == srv_command
            a == srv_args
            p == IF a.port # NoPort THEN 2 ELSE 0
            o == IF a.open THEN 1 ELSE 0
            t == IF a.strict_port THEN 1 ELSE 0
        IN  /\ Len(c) = 6 + p + o + t
            /\ SubSeq(c, 1, 6) = <<"npm", "run", "dev", "--", "--host", a.host>>
            /\ a.port # NoPort
                   => (c[7] = "--port" /\ c[8] = PortText(a.port[1]))
            /\ a.open => c[6 + p + 1] = "--open"
            /\ a.strict_port => c[6 + p + o + 1] = "--strictPort"
            \* the case of the test
            /\ a = [host |-> "0.0.0.0", port |-> <<5173>>, open |-> TRUE,
                    strict_port |-> TRUE]
                   => c = <<"npm", "run", "dev", "--", "--host", "0.0.0.0",
                            "--port", "5173", "--open", "--strictPort">>

\* build_command called with port None and both flags set
C15_Witness ==
    /\ srv_pc = "built"
    /\ srv_args.port = NoPort
    /\ srv_args.open /\ srv_args.strict_port
    /\ srv_command = <<"npm", "run", "dev", "--", "--host", srv_args.host,
                       "--open", "--strictPort">>

(***************************************************************************)
(* C16  Scanner state carry.  As stated: when a line ends inside an        *)
(* unterminated string literal or an unterminated block comment, that      *)
(* state carries to the next scanned line, so a "}" line that follows is   *)
(* still inside the string or comment and is counted neither in the brace  *)
(* delta nor in the leading-close count.                                   *)
(***************************************************************************)
\* the line the formatter hands to the scanner for line k
ScannedAt(k) == rstrip_space_tab(lines[k])

\* the scanner's locals when it has scanned line k
ScanEndAt(k) == scan_loop(ScannedAt(k), scan_init(Before(k).in_block_comment))

EndsInStringAt(k) == ScanEndAt(k).in_string # NoString

EndsInBlockCommentAt(k) == ScanEndAt(k).in_block_comment

C16_StateCarry ==
    LoopEnd =>
        \A k \in 1..(Len(lines) - 1) :
            (/\ IsCodeLineAt(k)
             /\ IsCodeLineAt(k + 1)
             /\ EndsInStringAt(k) \/ EndsInBlockCommentAt(k)
             /\ strip(lines[k + 1]) = <<"}">>)
            => (StatsAt(k + 1)[1] = 0 /\ StatsAt(k + 1)[2] = 0)

(***************************************************************************)
(* C16 as amended: only the block-comment state carries.  When a scanned   *)
(* line ends inside an unterminated block comment, the next scanned line   *)
(* is entered inside it: what precedes its first "*/" (the whole line when *)
(* it has none) is counted neither in the brace delta nor in the           *)
(* leading-close count, and the rest is scanned as a line of its own.  A   *)
(* string left open at the end of a line ends with the line.               *)
(***************************************************************************)
\* what follows the first "*/" of s
RECURSIVE AfterBlockClose(_)
AfterBlockClose(s) ==
    IF Len(s) < 2 THEN <<>>
    ELSE IF s[1] = "*" /\ s[2] = "/" THEN SubSeq(s, 3, Len(s))
    ELSE AfterBlockClose(Tail(s))

RECURSIVE HasBlockClose(_)
HasBlockClose(s) ==
    /\ Len(s) >= 2
    /\ (s[1] = "*" /\ s[2] = "/") \/ HasBlockClose(Tail(s))

C16_BlockCommentCarry ==
    LoopEnd =>
        \A k \in 1..Len(lines) :
            IsCodeLineAt(k) =>
                /\ LoopAfter(lines, k).in_block_comment = EndsInBlockCommentAt(k)
                /\ (/\ EndsInStringAt(k)
                    /\ k < Len(lines)
                    /\ IsCodeLineAt(k + 1)
                    /\ strip(lines[k + 1]) = <<"}">>)
                       => StatsAt(k + 1) = <<0 - 1, 1, FALSE>>
                /\ Before(k).in_block_comment =>
                       IF HasBlockClose(ScannedAt(k))
                       THEN StatsAt(k)
                            = line_brace_stats(AfterBlockClose(ScannedAt(k)), FALSE)
                       ELSE /\ StatsAt(k) = <<0, 0, TRUE>>
                            /\ LoopAfter(lines, k).indent_level
                               = Before(k).indent_level
                            /\ LeadingSpaces(Emitted[k])
                               = 2 * Before(k).indent_level

\* a line left a block comment open and the "}" line after it was emitted
\* at the level in force, which it did not change
C16_Witness ==
    /\ LoopEnd
    /\ \E k \in 1..(Len(lines) - 1) :
           /\ IsCodeLineAt(k) /\ IsCodeLineAt(k + 1)
           /\ ~Before(k).in_block_comment
           /\ EndsInBlockCommentAt(k)
           /\ strip(lines[k + 1]) = <<"}">>
           /\ Before(k + 1).indent_level = 1
           /\ LoopAfter(lines, k + 1).indent_level = 1
           /\ out[k + 1] = <<" ", " ", "}">>

(***************************************************************************)
(* C17  Scanner projection: for every line and incoming block-comment      *)
(* flag, strip_comments_for_braces returns exactly the characters of the   *)
(* line that are plain code or inside a string literal (quotes included),  *)
(* in order; every character of a block comment, delimiters included, and  *)
(* everything from an unquoted // on is dropped; scanning resumes on the   *)
(* same line after a "*/"; an escaped quote inside a string does not close *)
(* it; // and /* inside a string start no comment; and the returned flag   *)
(* is true iff the line ends inside a block comment.                       *)
(***************************************************************************)
\* the characters of line from position k on whose class is code or string
RECURSIVE Kept(_, _, _)
Kept(line, cls, k) ==
    IF k > Len(line) THEN <<>>
    ELSE IF cls[k] \in {"code", "string"}
         THEN <<line[k]>> \o Kept(line, cls, k + 1)
         ELSE Kept(line, cls, k + 1)

\* where the end of line is, by position: <<inside a block comment, the
\* quote of the string it is inside or NoString>>
RECURSIVE LexEnd(_, _, _, _, _)
LexEnd(line, p, blk, str, esc) ==
    IF p > Len(line) THEN <<blk, str>>
    ELSE LET ch  == line[p]
             nxt == IF p < Len(line) THEN line[p + 1] ELSE ""
         IN  IF blk
             THEN IF ch = "*" /\ nxt = "/"
                  THEN LexEnd(line, p + 2, FALSE, str, esc)
                  ELSE LexEnd(line, p + 1, TRUE, str, esc)
             ELSE IF str # NoString
             THEN LexEnd(line, p + 1, FALSE,
                         IF ~esc /\ ch # "\\" /\ ch = str
                         THEN NoString ELSE str,
                         ~esc /\ ch = "\\")
             ELSE IF ch \in {"'", "\""}
             THEN LexEnd(line, p + 1, FALSE, ch, FALSE)
             ELSE IF ch = "/" /\ nxt = "/" THEN <<FALSE, NoString>>
             ELSE IF ch = "/" /\ nxt = "*"
             THEN LexEnd(line, p + 2, TRUE, str, esc)
             ELSE LexEnd(line, p + 1, FALSE, str, esc)

ScanClasses == LexClasses(scan_line, 1, scan_flag, NoString, FALSE)

C17_Projection ==
    /\ [](ScanDone =>
            /\ scan_st.out = Kept(scan_line, ScanClasses, 1)
            /\ <<scan_st.in_block_comment, scan_st.in_string>>
               = LexEnd(scan_line, 1, scan_flag, NoString, FALSE))
    \* a "*/" ends the comment and the scan goes on behind it
    /\ [][ScanBlockClose =>
            /\ ~scan_st'.in_block_comment
            /\ scan_st'.i = scan_st.i + 2
            /\ ~scan_st'.stop
            /\ scan_st'.out = scan_st.out]_vars
    \* inside a string every character is kept and starts no comment; the
    \* character after a backslash does not close the string
    /\ [][ScanInString =>
            /\ scan_st'.out = Append(scan_st.out, ScanCh)
            /\ scan_st'.i = scan_st.i + 1
            /\ ~scan_st'.stop
            /\ ~scan_st'.in_block_comment
            /\ scan_st.escape => scan_st'.in_string = scan_st.in_string
            /\ scan_st'.in_string \in {scan_st.in_string, NoString}]_vars
    \* an unquoted // ends the scan of the line
    /\ [][ScanLineComment =>
            /\ scan_st'.stop
            /\ scan_st'.out = scan_st.out
            /\ ~scan_st'.in_block_comment]_vars
    \* a comment drops its delimiters and its characters
    /\ [][(ScanBlockOpen \/ ScanBlockSkip) =>
            /\ scan_st'.in_block_comment
            /\ scan_st'.out = scan_st.out]_vars

\* the line "\"// : the escaped quote left the string open, so the // was
\* kept as part of it
C17_Witness ==
    /\ ScanDone
    /\ ~scan_flag
    /\ scan_line = <<"\"", "\\", "\"", "/">>
    /\ scan_st.out = scan_line
    /\ scan_st.in_string = "\""
    /\ ~scan_st.in_block_comment

(***************************************************************************)
(* C18  Output whitespace: in the text format_frag_text returns, for any   *)
(* input, no line ends with a space or a tab, and the leading whitespace   *)
(* of every line is a (possibly empty) run of an even number of spaces,    *)
(* with no tab; for a directive line and for a line inside a preset block  *)
(* it is empty.                                                            *)
(***************************************************************************)
\* length of the leading run of whitespace of every class
RECURSIVE LeadingWhitespace(_)
LeadingWhitespace(s) ==
    IF s # <<>> /\ IsSpace(Head(s)) THEN 1 + LeadingWhitespace(Tail(s)) ELSE 0

CleanLine(l) ==
    /\ l # <<>> => l[Len(l)] \notin {" ", "\t"}
    /\ \A j \in 1..LeadingWhitespace(l) : l[j] = " "
    /\ LeadingWhitespace(l) % 2 = 0

C18_Whitespace ==
    /\ Done =>
          LET ls == split(result)
          IN  /\ out # <<>> => ls = out \o << <<>> >>
              /\ \A k \in 1..Len(ls) : CleanLine(ls[k])
    /\ LoopEnd =>
          \A k \in 1..Len(lines) :
              /\ CleanLine(out[k])
              /\ (~IsBlankLine(lines[k])
                  /\ (IsDirectiveLine(lines[k]) \/ IsPresetLineAt(k)))
                 => (out[k] # <<>> /\ LeadingWhitespace(out[k]) = 0)
              /\ IsCodeLineAt(k)
                 => LeadingWhitespace(out[k])
                    = 2 * EffectiveIndent(Before(k).indent_level, StatsAt(k)[2])

\* a code line that came with a leading tab and a trailing space was
\* returned one level deep, and a directive and a preset line that came
\* indented were returned at the margin
C18_Witness ==
    /\ Done
    /\ \E k \in 1..Len(lines) :
           /\ IsCodeLineAt(k)
           /\ Contains(SubSeq(lines[k], 1, LeadingWhitespace(lines[k])), "\t")
           /\ lines[k][Len(lines[k])] = " "
           /\ LeadingWhitespace(Emitted[k]) = 2
    /\ \E k \in 1..Len(lines) :
           /\ IsDirectiveLine(lines[k])
           /\ LeadingWhitespace(lines[k]) > 0
           /\ LeadingWhitespace(Emitted[k]) = 0
    /\ \E k \in 1..Len(lines) :
           /\ IsPresetLineAt(k)
           /\ LeadingWhitespace(lines[k]) > 0
           /\ LeadingWhitespace(Emitted[k]) = 0

(***************************************************************************)
(* C19  Write-then-check convergence: after a run of main with --write     *)
(* that completed without error, a run with --check that follows it over   *)
(* the same paths finds no changed file and returns 0: every file the      *)
(* first run left behind is a fixed point of format_file's change          *)
(* detection.                                                              *)
(***************************************************************************)
\* format_file would report file f as changed
WouldChange(f) ==
    format_frag_text(read_text(main_fs[f]))
    # normalize_newlines(read_text(main_fs[f]))

WriteRunReturned == main_run = 1 /\ main_args.write /\ main_pc = "returned"

CheckAfterWrite ==
    /\ main_run = 2
    /\ main_prev.write /\ ~main_prev.check /\ main_prev.pc = "returned"
    /\ main_args.check /\ ~main_args.write

C19_WriteThenCheck ==
    /\ WriteRunReturned =>
          /\ main_ret = 0
          /\ \A f \in DOMAIN main_fs : ~WouldChange(f)
    /\ CheckAfterWrite =>
          /\ main_changed = <<>>
          /\ main_pc # "raised"
          /\ main_fs = main_fs0
          /\ main_pc = "returned" => main_ret = 0

\* the first run rewrote both files and the check run that followed read
\* both and returned 0
C19_Witness ==
    /\ CheckAfterWrite
    /\ main_pc = "returned"
    /\ main_prev.written = {1, 2}
    /\ main_read = {1, 2}
    /\ main_ret = 0

(***************************************************************************)
(* C20  Check mode is read-only: format_file writes a file only when write *)
(* is true and the formatted text differs from the newline-normalised      *)
(* original; a run of main without --write modifies no file, returns 1 iff *)
(* --check is given and at least one file would change, and returns 0      *)
(* otherwise; with both --write and --check an error is raised before any  *)
(* file is read or written.                                                *)
(***************************************************************************)
C20_CheckReadOnly ==
    /\ [][\A f \in DOMAIN main_fs :
             (main_fs'[f] # main_fs[f] \/ f \in main_written' \ main_written)
             => /\ main_args.write
                /\ MainInLoop
                /\ f = main_files[main_k]
                /\ WouldChange(f)
                /\ main_fs'[f] = format_frag_text(read_text(main_fs[f]))]_vars
    /\ [](~main_args.write => (main_fs = main_fs0 /\ main_written = {}))
    /\ [](main_pc = "returned" =>
            main_ret = IF /\ main_args.check
                          /\ \E f \in DOMAIN main_fs0 :
                                format_file(main_fs0[f], FALSE)[1]
                       THEN 1 ELSE 0)
    /\ []((main_args.write /\ main_args.check) =>
            /\ main_pc \in {"main", "raised"}
            /\ main_pc = "raised" => main_error = "ValueError"
            /\ main_read = {}
            /\ main_written = {}
            /\ main_fs = main_fs0)

\* a run with --check alone read two files, found one of them in need of a
\* change, wrote nothing and returned 1
C20_Witness ==
    /\ main_pc = "returned"
    /\ main_args.check /\ ~main_args.write
    /\ main_read = {1, 2}
    /\ Len(main_changed) = 1
    /\ main_written = {}
    /\ main_fs = main_fs0
    /\ main_ret = 1

(***************************************************************************)
(* C21  As stated: the first call of make_system_id for a base returns the *)
(* base itself.  A base can have been handed out before as the suffixed id *)
(* of another base: after "a" and "A" the id fragmentarium/a-2 is taken,   *)
(* and the first call for the base fragmentarium/a-2 returns               *)
(* fragmentarium/a-2-2.                                                    *)
(***************************************************************************)
IdReturned == id_pc = "returned"

LastId == id_returned[Len(id_returned)]

C21_FirstCallReturnsBase ==
    (IdReturned /\ id_base \notin id_seen) => LastId = id_base

(***************************************************************************)
(* C21 as amended: over any sequence of calls sharing one used_ids set,    *)
(* every returned id is not in used_ids before the call and is in it       *)
(* after, so the returned ids are pairwise distinct; a call whose base is  *)
(* not in used_ids returns the base itself, and any other call returns     *)
(* base-k for the smallest k >= 2 such that base-k is not in used_ids.     *)
(***************************************************************************)
C21_Unique ==
    /\ \A m \in 1..Len(id_returned) : \A n \in 1..Len(id_returned) :
           m # n => id_returned[m] # id_returned[n]
    /\ id_used = {id_returned[m] : m \in 1..Len(id_returned)}
    /\ IdReturned =>
          /\ LastId \notin id_before
          /\ id_used = id_before \cup {LastId}
          /\ id_base \notin id_before => LastId = id_base
          /\ id_base \in id_before =>
                \E k \in 2..(Cardinality(id_before) + 2) :
                    /\ LastId = candidate(id_base, k)
                    /\ \A j \in 2..(k - 1) : candidate(id_base, j) \in id_before

\* the third call for one base returned base-3, base and base-2 being taken
C21_Witness ==
    /\ IdReturned
    /\ Len(id_returned) = 3
    /\ id_returned[1] = id_base
    /\ id_returned[2] = candidate(id_base, 2)
    /\ id_returned[3] = candidate(id_base, 3)
    /\ id_path = <<"/", "a", "/", "/", "B", "!">>
    /\ id_base = IdPrefix \o <<"a", "/", "b">>

====
